---------------------------- MODULE Spec2Model ----------------------------
(***************************************************************************)
(* The path-and-query router with filtered data serving: the request       *)
(* handler passed to http.createServer (an async function), its one        *)
(* suspension point (await fs.readFile) and the library calls it makes     *)
(* (new URL, Object.fromEntries, JSON.parse, Array.prototype.filter,       *)
(* Array.prototype.slice, parseInt).                                       *)
(*                                                                         *)
(* Strings that the code takes apart (query values) are sequences of       *)
(* one-character strings.  A raw request target is its list of path        *)
(* segments (the text between the slashes: "/api/" is <<"api", "">>, "//"  *)
(* is <<"", "">>) and its list of raw query pairs; url.pathname is a list  *)
(* of segments as well, so "/" is <<"">> and "/api" is <<"api">>.          *)
(***************************************************************************)
EXTENDS Integers, Sequences, FiniteSets, TLC

VARIABLES
    pc,           \* per invocation: "idle", "reading" (suspended at await), "done", "rejected"
    req,          \* per invocation: the request it was called with
    pathName,     \* per invocation: const pathName
    queryParams,  \* per invocation: const queryParams
    data,         \* per invocation: what fs.readFile settled with
    loaded,       \* per invocation: the array object JSON.parse returned, as it is now
    productData,  \* per invocation: let productData
    res,          \* per invocation: the calls made on res, in order
    readCalls,    \* per invocation: number of fs.readFile calls made
    log,          \* console.log lines, in order
    listening,    \* the callback of server.listen has run
    unhandled,    \* a rejected handler promise waits for the end of the current callback
    running       \* the process is alive

vars == <<pc, req, pathName, queryParams, data, loaded, productData, res,
          readCalls, log, listening, unhandled, running>>

-----------------------------------------------------------------------------
(* Bounds of the model *)

MaxReq == 2

MaxSegs == 2

MaxLimitLen == 2

MaxRecords == 3

Slots == 1..MaxReq

-----------------------------------------------------------------------------
(* Values *)

None == [none |-> TRUE]

Min(a, b) == IF a < b THEN a ELSE b

Max(a, b) == IF a > b THEN a ELSE b

Last(s) == s[Len(s)]

SeqsUpTo(S, n) == UNION {[1..k -> S] : k \in 0..n}

\* Characters of raw query values.  "+" is the form-encoded space.
RawChars == {"0", "1", "2", "-", "+", "a", "x"}

Methods == {"GET", "POST"}

GoodHost == "localhost:3000"

BadHost == "local host"

Hosts == {GoodHost, BadHost}

Segments == {"", "api", "API", "x", "products", ".", ".."}

Str(c) == <<c>>

RecordCategories == {Str("a"), Str("b")}

\* Ordered collections of records; ids are the positions in the source.
Collections ==
    UNION {{[i \in 1..n |-> [id |-> i, category |-> f[i]]] :
                f \in [1..n -> RecordCategories]} : n \in 0..MaxRecords}

Product(i, c) == [id |-> i, category |-> Str(c)]

\* What fs.readFile can settle with: a rejection, or the file's text, which
\* is either no JSON at all or the serialisation of a JSON value.
ReadError == [error |-> "ENOENT"]

CorruptText == [text |-> [invalid |-> "{\"products\": ["]]

ArrayText(c) == [text |-> [json |-> [array |-> c]]]

ObjectText == [text |-> [json |-> [object |-> [products |-> <<>>]]]]

-----------------------------------------------------------------------------
(* Library functions *)

\* new URL(req.url, `http://${req.headers.host}`): the host of the base.
ValidHost(h) == h = GoodHost

RECURSIVE DropLeadingEmpty(_)
DropLeadingEmpty(segs) ==
    IF segs # <<>> /\ Head(segs) = ""
    THEN DropLeadingEmpty(Tail(segs))
    ELSE segs

Shorten(path) ==
    IF path = <<>> THEN <<>> ELSE SubSeq(path, 1, Len(path) - 1)

\* The URL parser's path state: dot segments are resolved, everything else
\* (empty segments, letter case) is kept.
RECURSIVE PathState(_, _)
PathState(segs, path) ==
    IF segs = <<>> THEN path
    ELSE LET buf == Head(segs)
             atEnd == Len(segs) = 1
         IN  IF buf = ".."
             THEN PathState(Tail(segs),
                     IF atEnd THEN Append(Shorten(path), "") ELSE Shorten(path))
             ELSE IF buf = "."
             THEN PathState(Tail(segs),
                     IF atEnd THEN Append(path, "") ELSE path)
             ELSE PathState(Tail(segs), Append(path, buf))

\* url.pathname of new URL(target, base), or None when the constructor
\* throws.  A target that starts with two slashes is scheme-relative: the
\* slashes are skipped, the next segment is the host, and a missing host is
\* an invalid URL.
Pathname(segs, host) ==
    IF ~ValidHost(host) THEN None
    ELSE IF Len(segs) >= 2 /\ Head(segs) = ""
    THEN LET rest == DropLeadingEmpty(segs)
         IN  IF rest = <<>> THEN None
             ELSE IF Len(rest) = 1 THEN [pathname |-> <<"">>]
             ELSE [pathname |-> PathState(Tail(rest), <<>>)]
    ELSE [pathname |-> PathState(segs, <<>>)]

\* new URL(req.url, base): the URL object, or None when it throws.
ParseURL(rq) ==
    LET p == Pathname(rq.url.path, rq.host)
    IN  IF p = None THEN None
        ELSE [pathname |-> p.pathname, search |-> rq.url.search]

\* url.searchParams decoding of a value: "+" is a space.
RECURSIVE Decode(_)
Decode(s) ==
    IF s = <<>> THEN <<>>
    ELSE <<IF Head(s) = "+" THEN " " ELSE Head(s)>> \o Decode(Tail(s))

SearchParams(search) ==
    [i \in 1..Len(search) |-> [key |-> search[i].key, value |-> Decode(search[i].value)]]

\* Object.fromEntries: a later entry of a key overwrites an earlier one.
FromEntries(entries) ==
    LET keys == {entries[i].key : i \in 1..Len(entries)}
        lastOf(k) == CHOOSE i \in 1..Len(entries) :
                        /\ entries[i].key = k
                        /\ \A j \in (i+1)..Len(entries) : entries[j].key # k
    IN  [k \in keys |-> entries[lastOf(k)].value]

HasKey(obj, k) == k \in DOMAIN obj

\* if (queryParams.k): the property exists and is not the empty string.
Truthy(obj, k) == HasKey(obj, k) /\ obj[k] # <<>>

DigitValue(c) ==
    CASE c = "0" -> 0
      [] c = "1" -> 1
      [] c = "2" -> 2
      [] c = "a" -> 10
      [] OTHER -> 99

RECURSIVE TrimStart(_)
TrimStart(s) ==
    IF s # <<>> /\ Head(s) = " " THEN TrimStart(Tail(s)) ELSE s

\* The longest prefix of s made of digits of the radix, as a list of values.
RECURSIVE DigitPrefix(_, _)
DigitPrefix(s, radix) ==
    IF s = <<>> \/ DigitValue(Head(s)) >= radix THEN <<>>
    ELSE <<DigitValue(Head(s))>> \o DigitPrefix(Tail(s), radix)

RECURSIVE Horner(_, _, _)
Horner(ds, radix, acc) ==
    IF ds = <<>> THEN acc ELSE Horner(Tail(ds), radix, acc * radix + Head(ds))

\* parseInt(s) with no radix: white space, a sign, "0x" for base 16, then the
\* longest run of digits; NaN when there is none.  -0 is 0 here: slice
\* treats them alike.
ParseInt(s) ==
    LET t == TrimStart(s)
        neg == t # <<>> /\ Head(t) = "-"
        u == IF t # <<>> /\ Head(t) \in {"-", "+"} THEN Tail(t) ELSE t
        hex == Len(u) >= 2 /\ u[1] = "0" /\ u[2] = "x"
        radix == IF hex THEN 16 ELSE 10
        ds == DigitPrefix(IF hex THEN SubSeq(u, 3, Len(u)) ELSE u, radix)
        n == Horner(ds, radix, 0)
    IN  IF ds = <<>> THEN [nan |-> TRUE]
        ELSE [value |-> IF neg THEN 0 - n ELSE n]

\* A parse that falls back to an empty collection instead of throwing.
JSONParseLenient(text) ==
    IF "json" \in DOMAIN text THEN [value |-> text.json] ELSE [value |-> [array |-> <<>>]]

\* JSON.parse of the file's text.
JSONParse(text) ==
    IF "json" \in DOMAIN text THEN [value |-> text.json] ELSE [threw |-> "SyntaxError"]

\* JSON.stringify of a value the handler sends.
JSONStringify(v) == [json |-> v]

Lower(c) == IF c = "A" THEN "a" ELSE c

LowerCase(s) == [i \in 1..Len(s) |-> Lower(s[i])]

\* A filter that compares the categories without regard to case.
FilterIgnoreCase(arr, category) ==
    SelectSeq(arr, LAMBDA item : LowerCase(item.category) = LowerCase(category))

\* productData.filter((item) => item.category === category): a new array.
RECURSIVE Filter(_, _)
Filter(arr, category) ==
    IF arr = <<>> THEN <<>>
    ELSE (IF Head(arr).category = category THEN <<Head(arr)>> ELSE <<>>)
            \o Filter(Tail(arr), category)

\* A slice whose end index is inclusive.
SliceInclusive(arr, end) ==
    LET len == Len(arr)
        rel == IF "nan" \in DOMAIN end THEN 0 ELSE end.value
        final == IF rel < 0 THEN Max(len + rel, 0) ELSE Min(rel, len)
    IN  SubSeq(arr, 1, Min(final + 1, len))

\* productData.length = end: truncates in place, and pads with holes (null
\* once serialised) when end is past the array.
SliceSetLength(arr, end) ==
    LET len == Len(arr)
        rel == IF "nan" \in DOMAIN end THEN 0 ELSE Max(end.value, 0)
    IN  IF rel <= len THEN SubSeq(arr, 1, rel)
        ELSE arr \o [i \in 1..(rel - len) |-> [id |-> 0, category |-> <<>>]]

\* productData.slice(0, end): a new array.  A NaN end is 0, a negative end
\* counts from the back, and both ends are clamped to the array.
Slice(arr, end) ==
    LET len == Len(arr)
        rel == IF "nan" \in DOMAIN end THEN 0 ELSE end.value
        final == IF rel < 0 THEN Max(len + rel, 0) ELSE Min(rel, len)
    IN  SubSeq(arr, 1, final)


-----------------------------------------------------------------------------
(* The handler *)

HomePath == <<"">>

ApiPath == <<"api">>

HomeBody ==
    [html |-> "<!DOCTYPE html>\n<html>\n  <head>\n    <title>Home Page</title>\n  </head>\n  <body>\n    <h1>Welcome to the Home Page</h1>\n    <p>This is the home page content.</p>\n  </body>\n</html>"]

NotFoundBody == [html |-> "<h1>404 - Page Not Found</h1>"]

ErrorObject == [object |-> [error |-> "Data file not found"]]

WriteHead(status, contentType) ==
    [call |-> "writeHead", status |-> status, contentType |-> contentType]

End(body) == [call |-> "end", body |-> body]

\* The path with the query string still on it, as req.url has it.
PathWithSearch(url) ==
    IF url.search = <<>> THEN url.pathname ELSE Append(url.pathname, "?")

\* const pathName = url.pathname
PathNameOf(url) == url.pathname

\* const queryParams = Object.fromEntries(url.searchParams)
QueryParamsOf(url) == FromEntries(SearchParams(url.search))

\* A chain that matches the data route by its first segment.
RoutePrefix(p) ==
    IF p = <<"">> THEN "home"
    ELSE IF p # <<>> /\ Head(p) = "api" THEN "api"
    ELSE "notfound"

\* The if / else if / else chain on pathName.
Route(p) ==
    IF p = HomePath THEN "home"
    ELSE IF p = ApiPath THEN "api"
    ELSE "notfound"

IsArray(v) == "array" \in DOMAIN v

Threw(x) == "threw" \in DOMAIN x

TypeError == [threw |-> "TypeError"]

\* if (queryParams.category) productData = productData.filter(...)
FilterStep(pd, q) ==
    IF Threw(pd) THEN pd
    ELSE IF Truthy(q, "category")
    THEN (IF IsArray(pd) THEN [array |-> Filter(pd.array, q.category)] ELSE TypeError)
    ELSE pd

\* if (queryParams.limit) productData = productData.slice(0, parseInt(...))
LimitStep(pd, q) ==
    IF Threw(pd) THEN pd
    ELSE IF Truthy(q, "limit")
    THEN (IF IsArray(pd) THEN [array |-> Slice(pd.array, ParseInt(q.limit))] ELSE TypeError)
    ELSE pd

\* The two steps the other way round.
SelectLimitFirst(pd, q) == FilterStep(LimitStep(pd, q), q)

\* The two steps in the order of the code.
Select(pd, q) == LimitStep(FilterStep(pd, q), q)

\* One queryParams for the whole module, overwritten by every call of the
\* handler: the continuation sees that of the latest request.
SharedQuery(r) == Last(log).queryParams

\* The queryParams the continuation after the await sees: the binding of its
\* own invocation.
OwnQuery(r) == queryParams[r]

\* The body of the try block from the settled read on: the value serialised
\* into the 200 response, or what was thrown.
TryBlock(outcome, q) ==
    IF "error" \in DOMAIN outcome THEN [threw |-> outcome.error]
    ELSE LET parsed == JSONParse(outcome.text)
         IN  IF Threw(parsed) THEN parsed ELSE Select(parsed.value, q)

Init ==
    /\ pc = [r \in Slots |-> "idle"]
    /\ req = [r \in Slots |-> None]
    /\ pathName = [r \in Slots |-> <<>>]
    /\ queryParams = [r \in Slots |-> <<>>]
    /\ data = [r \in Slots |-> None]
    /\ loaded = [r \in Slots |-> None]
    /\ productData = [r \in Slots |-> None]
    /\ res = [r \in Slots |-> <<>>]
    /\ readCalls = [r \in Slots |-> 0]
    /\ log = <<>>
    /\ listening = FALSE
    /\ unhandled = FALSE
    /\ running = TRUE

PORT == 3000

\* The line the callback of server.listen prints: the check mark U+2705 (a
\* string here holds ASCII only, so it is named), the text, and the port.
ListenLine ==
    [mark |-> "U+2705", text |-> " Server is running on http://localhost:", port |-> PORT]

\* server.listen(PORT, callback): the server is bound and the callback runs,
\* once, before the handler can be called.
Listening ==
    /\ running
    /\ ~listening
    /\ listening' = TRUE
    /\ log' = Append(log, ListenLine)
    /\ UNCHANGED <<pc, req, pathName, queryParams, data, loaded, productData, res,
                   readCalls, unhandled, running>>

\* What the runtime does with a rejected promise nobody handles: end the
\* process (throw, the default) or go on (warn).
UnhandledRejectionModes == {"throw", "warn"}

\* The handler is called with a request and runs to its first await or to
\* its end.  When new URL throws, the promise of the async handler rejects;
\* the runtime deals with it only once the current event-loop callback is
\* over, so the handlers of further requests parsed from the same socket read
\* run before that.
Request(r, rq) ==
    /\ running
    /\ listening
    /\ pc[r] = "idle"
    /\ req' = [req EXCEPT ![r] = rq]
    /\ UNCHANGED <<data, loaded, productData, listening>>
    /\ LET url == ParseURL(rq)
       IN  IF url = None
           THEN /\ pc' = [pc EXCEPT ![r] = "rejected"]
                /\ unhandled' = TRUE
                /\ UNCHANGED <<pathName, queryParams, res, readCalls, log, running>>
           ELSE LET p == PathNameOf(url)
                    q == QueryParamsOf(url)
                IN  /\ pathName' = [pathName EXCEPT ![r] = p]
                    /\ queryParams' = [queryParams EXCEPT ![r] = q]
                    /\ log' = Append(log, [method |-> rq.method, pathName |-> p,
                                           queryParams |-> q])
                    /\ UNCHANGED <<running, unhandled>>
                    /\ CASE Route(p) = "home" ->
                              /\ res' = [res EXCEPT ![r] =
                                    <<WriteHead(200, "text/html"), End(HomeBody)>>]
                              /\ pc' = [pc EXCEPT ![r] = "done"]
                              /\ UNCHANGED readCalls
                         [] Route(p) = "api" ->
                              /\ readCalls' = [readCalls EXCEPT ![r] = @ + 1]
                              /\ pc' = [pc EXCEPT ![r] = "reading"]
                              /\ UNCHANGED res
                         [] OTHER ->
                              /\ res' = [res EXCEPT ![r] =
                                    <<WriteHead(404, "text/html"), End(NotFoundBody)>>]
                              /\ pc' = [pc EXCEPT ![r] = "done"]
                              /\ UNCHANGED readCalls

\* The current callback is over and the runtime comes to the rejected
\* promises no one handled: it ends the process, or warns and goes on.
UnhandledRejection ==
    /\ running
    /\ unhandled
    /\ unhandled' = FALSE
    /\ \E mode \in UnhandledRejectionModes : running' = (mode = "warn")
    /\ UNCHANGED <<pc, req, pathName, queryParams, data, loaded, productData, res,
                   readCalls, log, listening>>

\* fs.readFile settles and the handler runs from the await to its end.  This
\* is a callback of its own: pending rejections are dealt with before it.
ReadFileSettled(r, outcome) ==
    /\ running
    /\ ~unhandled
    /\ pc[r] = "reading"
    /\ data' = [data EXCEPT ![r] = outcome]
    /\ pc' = [pc EXCEPT ![r] = "done"]
    /\ LET parsed == IF "error" \in DOMAIN outcome THEN [threw |-> outcome.error]
                     ELSE JSONParse(outcome.text)
           result == TryBlock(outcome, OwnQuery(r))
       IN  /\ loaded' = [loaded EXCEPT ![r] =
                            IF Threw(parsed) THEN None ELSE parsed.value]
           /\ productData' = [productData EXCEPT ![r] =
                            IF Threw(parsed) THEN None
                            ELSE IF Threw(result) THEN parsed.value
                            ELSE result]
           /\ res' = [res EXCEPT ![r] =
                        IF Threw(result)
                        THEN <<WriteHead(404, "application/json"),
                               End(JSONStringify(ErrorObject))>>
                        ELSE <<WriteHead(200, "application/json"),
                               End(JSONStringify(result))>>]
    /\ UNCHANGED <<req, pathName, queryParams, readCalls, log, listening, unhandled,
                   running>>

-----------------------------------------------------------------------------
(* Inputs *)

Pair(k, v) == [key |-> k, value |-> v]

Req(m, h, path, search) ==
    [method |-> m, host |-> h, url |-> [path |-> path, search |-> search]]

Abc == <<Product(1, "a"), Product(2, "b"), Product(3, "a")>>

\* Requests in flight together.
ConcurrentRequests ==
    { Req("GET", GoodHost, <<"">>, <<>>),
      Req("POST", GoodHost, <<"">>, <<Pair("category", Str("a")), Pair("limit", Str("1"))>>),
      Req("GET", GoodHost, <<"api">>, <<>>),
      Req("GET", GoodHost, <<"api">>, <<Pair("category", Str("a"))>>),
      Req("GET", GoodHost, <<"api">>, <<Pair("limit", Str("1"))>>),
      Req("POST", GoodHost, <<"api">>, <<Pair("category", Str("b")), Pair("limit", Str("1"))>>),
      Req("GET", GoodHost, <<"API">>, <<>>),
      Req("GET", GoodHost, <<"", "">>, <<>>),
      Req("GET", BadHost, <<"api">>, <<>>) }

ConcurrentOutcomes ==
    {ReadError, CorruptText, ArrayText(Abc), ArrayText(<<Product(1, "b"), Product(2, "a")>>)}

Next ==
    \/ \E r \in Slots :
          \/ \E rq \in ConcurrentRequests : Request(r, rq)
          \/ \E o \in ConcurrentOutcomes : ReadFileSettled(r, o)
    \/ UnhandledRejection
    \/ Listening

Spec == Init /\ [][Next]_vars

\* One request at a time, every raw path.
RoutePaths == SeqsUpTo(Segments, MaxSegs) \ {<<>>}

RouteSearches ==
    { <<>>,
      <<Pair("category", Str("a"))>>,
      <<Pair("limit", Str("1")), Pair("category", Str("b"))>> }

RouteRequests ==
    {Req(m, h, p, s) : m \in Methods, h \in Hosts, p \in RoutePaths, s \in RouteSearches}

RouteOutcomes == {ReadError, CorruptText, ObjectText, ArrayText(Abc)}

NextRoute ==
    \/ \E rq \in RouteRequests : Request(1, rq)
    \/ \E o \in RouteOutcomes : ReadFileSettled(1, o)
    \/ UnhandledRejection
    \/ Listening

SpecRoute == Init /\ [][NextRoute]_vars

\* One request at a time to the data route, every query and every collection.
LimitValues == SeqsUpTo(RawChars, MaxLimitLen)

CategoryValues == {<<>>, Str("a"), Str("A"), Str("b"), Str("c"), <<"+", "a">>}

DataSearches ==
    {<<>>}
    \cup {<<Pair("category", c)>> : c \in CategoryValues}
    \cup {<<Pair("limit", l)>> : l \in LimitValues}
    \cup {<<Pair("category", c), Pair("limit", l)>> : c \in CategoryValues, l \in LimitValues}
    \cup { <<Pair("category", Str("a")), Pair("category", Str("b"))>>,
           <<Pair("limit", Str("1")), Pair("limit", Str("a"))>>,
           <<Pair("limit", Str("a")), Pair("category", <<>>), Pair("limit", Str("2"))>> }

DataRequests ==
    {Req("GET", GoodHost, <<"api">>, s) : s \in DataSearches}
    \cup {Req("GET", GoodHost, <<"", "">>, <<Pair("limit", Str("1"))>>)}

DataOutcomes ==
    {ReadError, CorruptText, ObjectText} \cup {ArrayText(c) : c \in Collections}

NextData ==
    \/ \E rq \in DataRequests : Request(1, rq)
    \/ \E o \in DataOutcomes : ReadFileSettled(1, o)
    \/ UnhandledRejection
    \/ Listening

SpecData == Init /\ [][NextData]_vars

-----------------------------------------------------------------------------
(* Vocabulary of the properties *)

Accepted(r) == pc[r] \in {"reading", "done"}

ApiDone(r) == pc[r] = "done" /\ pathName[r] = ApiPath

ArrayRead(r) ==
    /\ "text" \in DOMAIN data[r]
    /\ "json" \in DOMAIN data[r].text
    /\ "array" \in DOMAIN data[r].text.json

ReadFailed(r) ==
    \/ "error" \in DOMAIN data[r]
    \/ "text" \in DOMAIN data[r] /\ "invalid" \in DOMAIN data[r].text

Source(r) == data[r].text.json.array

Category(r) == queryParams[r]["category"]

Limit(r) == queryParams[r]["limit"]

HasCategory(r) == "category" \in DOMAIN queryParams[r] /\ Category(r) # <<>>

HasLimit(r) == "limit" \in DOMAIN queryParams[r] /\ Limit(r) # <<>>

\* The records of c whose category is cat, in the order of c.
Matching(c, cat) == SelectSeq(c, LAMBDA rec : rec.category = cat)

\* The first min(n, Len(c)) records of c.
Prefix(c, n) == SubSeq(c, 1, Min(n, Len(c)))

\* The category-filtered collection of a request.
Filtered(r) == IF HasCategory(r) THEN Matching(Source(r), Category(r)) ELSE Source(r)

Ok(items) ==
    << [call |-> "writeHead", status |-> 200, contentType |-> "application/json"],
       [call |-> "end", body |-> [json |-> [array |-> items]]] >>

DataFileNotFound ==
    << [call |-> "writeHead", status |-> 404, contentType |-> "application/json"],
       [call |-> "end", body |-> [json |-> [object |-> [error |-> "Data file not found"]]]] >>

PageNotFound ==
    << [call |-> "writeHead", status |-> 404, contentType |-> "text/html"],
       [call |-> "end", body |-> [html |-> "<h1>404 - Page Not Found</h1>"]] >>

HomePage ==
    << [call |-> "writeHead", status |-> 200, contentType |-> "text/html"],
       [call |-> "end", body |-> [html |->
          "<!DOCTYPE html>\n<html>\n  <head>\n    <title>Home Page</title>\n  </head>\n  <body>\n    <h1>Welcome to the Home Page</h1>\n    <p>This is the home page content.</p>\n  </body>\n</html>"]] >>

Is200(r) == Len(res[r]) = 2 /\ res[r][1].status = 200

Items(r) == res[r][2].body.json.array

\* Decimal numerals and the numbers they write.
Numerals ==
    { [s |-> <<"0">>, n |-> 0], [s |-> <<"1">>, n |-> 1], [s |-> <<"2">>, n |-> 2],
      [s |-> <<"1", "0">>, n |-> 10], [s |-> <<"0", "2">>, n |-> 2],
      [s |-> <<"2", "a">>, n |-> 2], [s |-> <<" ", "1">>, n |-> 1] }

-----------------------------------------------------------------------------
(* Properties *)

\* C1: on the data route a limit that is no number is treated as no limit:
\* status 200 with the whole category-filtered collection, as when limit is
\* absent.
NonNumericLimitIsNoLimit ==
    \A r \in Slots :
        (ApiDone(r) /\ ArrayRead(r) /\ "limit" \in DOMAIN queryParams[r]
            /\ "nan" \in DOMAIN ParseInt(Limit(r)))
        => res[r] = Ok(Filtered(r))

\* C2: a limit that parses to N >= 0 (N = 0 included) returns the first
\* min(N, filtered length) records of the category-filtered collection, and
\* the whole filtered collection when N is past its end.
LimitTakesFirstN ==
    \A r \in Slots :
        (ApiDone(r) /\ ArrayRead(r) /\ "limit" \in DOMAIN queryParams[r]) =>
            /\ \A m \in Numerals :
                  Limit(r) = m.s =>
                     /\ res[r] = Ok(Prefix(Filtered(r), m.n))
                     /\ Len(Items(r)) = Min(m.n, Len(Filtered(r)))
            /\ LET n == ParseInt(Limit(r))
               IN  ("value" \in DOMAIN n /\ n.value >= 0) =>
                     /\ res[r] = Ok(Prefix(Filtered(r), n.value))
                     /\ Len(Items(r)) = Min(n.value, Len(Filtered(r)))
                     /\ (n.value >= Len(Filtered(r)) => Items(r) = Filtered(r))

LimitCutsWitness ==
    \E r \in Slots :
        /\ ApiDone(r) /\ ArrayRead(r) /\ HasLimit(r) /\ Limit(r) = <<"2">>
        /\ Len(Filtered(r)) = 3
        /\ Len(Items(r)) = 2

\* C3: a present, non-empty category returns exactly the records of that
\* category (compared as is: case and spaces count) in their original order,
\* and the empty sequence with status 200 when there is none; an absent or
\* empty category filters nothing.
CategoryFilterExact ==
    \A r \in Slots :
        (ApiDone(r) /\ ArrayRead(r) /\ ~HasLimit(r)) =>
            IF "category" \in DOMAIN queryParams[r] /\ Category(r) # <<>>
            THEN res[r] = Ok(Matching(Source(r), Category(r)))
            ELSE res[r] = Ok(Source(r))

CategoryCaseWitness ==
    \E r \in Slots :
        /\ ApiDone(r) /\ ArrayRead(r) /\ ~HasLimit(r)
        /\ HasCategory(r) /\ Category(r) = <<"A">>
        /\ \E i \in 1..Len(Source(r)) : Source(r)[i].category = <<"a">>
        /\ res[r] = Ok(<<>>)

\* C4: with a category X and a limit K the filter is applied first and the
\* limit second: the first K records among those of category X, never the
\* records of category X among the first K.
FilterThenLimit ==
    \A r \in Slots :
        (ApiDone(r) /\ ArrayRead(r) /\ HasCategory(r) /\ HasLimit(r)
            /\ "value" \in DOMAIN ParseInt(Limit(r)) /\ ParseInt(Limit(r)).value >= 0) =>
            LET k == ParseInt(Limit(r)).value
                first == Prefix(Matching(Source(r), Category(r)), k)
                other == Matching(Prefix(Source(r), k), Category(r))
            IN  /\ res[r] = Ok(first)
                /\ (first # other => Items(r) # other)
                /\ (Source(r) = Abc /\ Category(r) = <<"a">> /\ k = 1
                        => Items(r) = <<[id |-> 1, category |-> <<"a">>]>>)

FilterThenLimitWitness ==
    \E r \in Slots :
        /\ ApiDone(r) /\ ArrayRead(r)
        /\ Source(r) = <<[id |-> 1, category |-> <<"b">>], [id |-> 2, category |-> <<"a">>]>>
        /\ HasCategory(r) /\ Category(r) = <<"a">>
        /\ HasLimit(r) /\ Limit(r) = <<"1">>
        /\ Items(r) = <<[id |-> 2, category |-> <<"a">>]>>

\* C5: when the read fails or the text is no JSON, the response is status
\* 404, content-type application/json, body {"error":"Data file not found"},
\* and nothing else is written.
ReadFailureIs404 ==
    \A r \in Slots :
        (pc[r] = "done" /\ ReadFailed(r)) => res[r] = DataFileNotFound

ReadFailureWitness ==
    /\ \E r \in Slots : pc[r] = "done" /\ data[r] = CorruptText /\ res[r] = DataFileNotFound

\* C6: every 200 response of the data route carries a subsequence of the
\* collection that was loaded (nothing reordered, repeated or made up), for
\* negative and oversized limits too, and the loaded collection is as it was
\* read.
ResultIsSubsequence ==
    \A r \in Slots :
        (ApiDone(r) /\ ArrayRead(r) /\ Is200(r)) =>
            /\ \A i \in 1..Len(Items(r)) :
                  /\ Items(r)[i].id \in 1..Len(Source(r))
                  /\ Items(r)[i] = Source(r)[Items(r)[i].id]
            /\ \A i, j \in 1..Len(Items(r)) : i < j => Items(r)[i].id < Items(r)[j].id
            /\ loaded[r] = [array |-> Source(r)]

NegativeLimitWitness ==
    \E r \in Slots :
        /\ ApiDone(r) /\ ArrayRead(r) /\ Is200(r)
        /\ HasLimit(r) /\ Limit(r) = <<"-", "1">>
        /\ Len(Source(r)) = 3 /\ ~HasCategory(r)
        /\ Items(r) = SubSeq(Source(r), 1, 2)

\* C7: a request whose path is neither "/" nor "/api" exactly gets status 404
\* with the fixed not-found body, whatever its method and query: "/api/",
\* "/api/x", "/API" and "/products" are not matched.
UnmatchedPathIs404 ==
    \A r \in Slots :
        /\ (Accepted(r) /\ pathName[r] # <<"">> /\ pathName[r] # <<"api">>)
              => (pc[r] = "done" /\ res[r] = PageNotFound /\ readCalls[r] = 0)
        /\ (pc[r] # "idle" /\ req[r].host = GoodHost
               /\ req[r].url.path \in {<<"api", "">>, <<"api", "x">>, <<"API">>, <<"products">>})
              => (pc[r] = "done" /\ res[r] = PageNotFound)

UnmatchedPathWitness ==
    \E r \in Slots :
        /\ pc[r] = "done" /\ pathName[r] = <<"api", "">>
        /\ req[r].method = "POST" /\ "category" \in DOMAIN queryParams[r]
        /\ res[r] = PageNotFound

\* C8: a request whose path is exactly "/" gets status 200, content-type
\* text/html and the fixed home body, whatever its query and method, and the
\* data source is not read for it.
HomeAlways200 ==
    \A r \in Slots :
        /\ (Accepted(r) /\ pathName[r] = <<"">>)
              => (pc[r] = "done" /\ res[r] = HomePage /\ readCalls[r] = 0 /\ data[r] = None)
        /\ (pc[r] # "idle" /\ req[r].host = GoodHost /\ req[r].url.path = <<"">>)
              => (pc[r] = "done" /\ res[r] = HomePage /\ readCalls[r] = 0)

HomeWithQueryWitness ==
    \E r \in Slots :
        /\ pc[r] = "done" /\ pathName[r] = <<"">> /\ req[r].url.path = <<"">>
        /\ req[r].method = "POST"
        /\ "category" \in DOMAIN queryParams[r] /\ "limit" \in DOMAIN queryParams[r]
        /\ res[r] = HomePage

\* C9: every request the handler was called with ends with exactly one
\* response (one writeHead, then one end), and no failure escapes the handler
\* to leave the request unanswered or to end the process.
EveryRequestAnswered ==
    /\ running
    /\ ~unhandled
    /\ \A r \in Slots :
          pc[r] \notin {"idle", "reading"} =>
              /\ pc[r] = "done"
              /\ Len(res[r]) = 2
              /\ res[r][1].call = "writeHead"
              /\ res[r][2].call = "end"

\* The response the handler gives to request rq alone when its read settles
\* with d.
OwnResponse(rq, d) ==
    LET url == ParseURL(rq)
        result == TryBlock(d, QueryParamsOf(url))
    IN  CASE Route(url.pathname) = "home" -> HomePage
          [] Route(url.pathname) = "api" ->
                IF Threw(result) THEN DataFileNotFound
                ELSE << [call |-> "writeHead", status |-> 200, contentType |-> "application/json"],
                        [call |-> "end", body |-> [json |-> result]] >>
          [] OTHER -> PageNotFound

\* C10: with requests interleaved at the read, the response to each is a
\* function of its own request and of what its own read returned; no other
\* request's filter or limit has a part in it.
ResponseIsOwn ==
    \A r \in Slots : pc[r] = "done" => res[r] = OwnResponse(req[r], data[r])

InterleavedWitness ==
    /\ pc[1] = "reading" /\ pc[2] = "done" /\ pathName[2] = <<"api">>
    /\ Len(log) = 3 /\ log[1] = ListenLine /\ log[2].queryParams = queryParams[1]
    /\ queryParams[1] # queryParams[2]
    /\ Is200(2) /\ HasCategory(2)

=============================================================================
